---- MODULE Spec2Model ----
(***************************************************************************)
(* Model of src/app.js: the generate -> describe -> feed-back iteration    *)
(* loop, its cancellation and failure handling, the credential store and   *)
(* the PDF exporter.                                                       *)
(*                                                                         *)
(* JavaScript strings are sequences of one-character strings, so that      *)
(* trim(), parseInt() and startsWith() are computed as the engine computes *)
(* them.  Fixed message texts are kept as one token.  null is the          *)
(* one-token sequence Null.                                                *)
(***************************************************************************)
EXTENDS Integers, Sequences, FiniteSets, TLC

\* ------------------------------------------------------------------ bounds
\* Cards created per page load (every run creates at least one card), one
\* bound per specification: the iteration engine, the specifications with the
\* exporter, the credential store, the engine under fairness.
MaxCards == 3
MaxExportCards == 2
MaxCredCards == 2
MaxLiveCards == 3
MaxChainCards == 3
MaxPageCards == 2
MaxFailCards == 3

\* ------------------------------------------------------------ JS strings
Null == <<"null">>

Truthy(s) == s # Null /\ s # <<>>

IsSpace(c) == c = " "

RECURSIVE TrimStart(_)
TrimStart(s) == IF s # <<>> /\ IsSpace(Head(s)) THEN TrimStart(Tail(s)) ELSE s

RECURSIVE TrimEnd(_)
TrimEnd(s) ==
    IF s # <<>> /\ IsSpace(s[Len(s)]) THEN TrimEnd(SubSeq(s, 1, Len(s) - 1)) ELSE s

\* String.prototype.trim
Trim(s) == TrimEnd(TrimStart(s))

\* String.prototype.startsWith
StartsWith(s, p) == Len(s) >= Len(p) /\ SubSeq(s, 1, Len(p)) = p

Digits == <<"0", "1", "2", "3", "4", "5", "6", "7", "8", "9">>

IsDigit(c) == \E k \in 1..10 : Digits[k] = c

DigitVal(c) == (CHOOSE k \in 1..10 : Digits[k] = c) - 1

NaN == [nan |-> TRUE, val |-> 0]

Num(n) == [nan |-> FALSE, val |-> n]

\* Value of the longest prefix of decimal digits; NaN when there is none.
RECURSIVE DigitPrefix(_, _, _)
DigitPrefix(s, acc, any) ==
    IF s # <<>> /\ IsDigit(Head(s))
    THEN DigitPrefix(Tail(s), 10 * acc + DigitVal(Head(s)), TRUE)
    ELSE IF any THEN Num(acc) ELSE NaN

\* parseInt(string): leading white space is skipped, an optional sign is
\* read, then the longest digit prefix; anything after it is ignored.
ParseInt(s) ==
    LET t == TrimStart(s)
    IN  IF t # <<>> /\ Head(t) = "-"
        THEN LET r == DigitPrefix(Tail(t), 0, FALSE)
             IN  IF r.nan THEN NaN ELSE Num(0 - r.val)
        ELSE IF t # <<>> /\ Head(t) = "+"
        THEN DigitPrefix(Tail(t), 0, FALSE)
        ELSE DigitPrefix(t, 0, FALSE)

\* ------------------------------------------------------------ validation
MinIterations == 1
MaxIterations == 10

KeyPrefix == <<"s", "k", "-">>

MsgPrompt == <<"Please enter an initial prompt.">>
MsgIterations == <<"Please enter a valid number of iterations (1-10).">>
MsgApiKey == <<"Please enter a valid OpenAI API key.">>

\* !iterations is true of NaN and of 0; NaN < 1 and NaN > 10 are false.
IterationsInvalid(iterations) ==
    \/ iterations.nan
    \/ iterations.val = 0
    \/ iterations.val < MinIterations
    \/ iterations.val > MaxIterations

ApiKeyInvalid(apiKey) == apiKey = <<>> \/ ~StartsWith(apiKey, KeyPrefix)

\* A validation that forgets the prefix of the credential.
validateInputsAnyKey(prompt, iterations, apiKey) ==
    IF prompt = <<>> THEN MsgPrompt
    ELSE IF IterationsInvalid(iterations) THEN MsgIterations
    ELSE IF apiKey = <<>> THEN MsgApiKey
    ELSE Null

validateInputs(prompt, iterations, apiKey) ==
    IF prompt = <<>> THEN MsgPrompt
    ELSE IF IterationsInvalid(iterations) THEN MsgIterations
    ELSE IF ApiKeyInvalid(apiKey) THEN MsgApiKey
    ELSE Null

\* ---------------------------------------------------------------- inputs
\* Values a user can have typed into the form fields.
BlankPrompt == <<" ">>
SomePrompt == <<" ", "a", " ">>
PromptInputs == { BlankPrompt, SomePrompt }

Numeral(n) == <<Digits[n + 1]>>

IterationInputs(max) ==
    { <<>>, <<"0">>, <<"-", "1">>, <<"1", "1">>, <<" ", "2", "x">> }
        \cup { Numeral(n) : n \in 1..max }

GoodKey == <<"s", "k", "-", "x">>
PaddedKey == <<" ", "s", "k", "-", "x", " ">>
OtherKey == <<"p", "k", "-", "x">>
ApiKeyInputs == { <<>>, PaddedKey, OtherKey }

\* What the two endpoints can answer.
DataUrl == <<"d", "a", "t", "a", ":", "1">>
HttpsUrl == <<"h", "t", "t", "p", "s", ":", "2">>
TallUrl == <<"h", "t", "t", "p", "s", ":", "3">>
Urls == { DataUrl, HttpsUrl, TallUrl }

ShortDesc == <<"d">>
LongDesc == <<"D">>
Descriptions == { ShortDesc, LongDesc }

ApiMessage == <<"quota exceeded">>
MsgFetchRejected == <<"Failed to fetch">>
MsgJsonSyntax == <<"Unexpected token < in JSON at position 0">>
MsgGenerateFailed == <<"Failed to generate image">>
MsgDescribeFailed == <<"Failed to describe image">>
MsgStopped == <<"Generation stopped by user.">>

\* ----------------------------------------------------------------- state
VARIABLES
    isGenerating,      \* let isGenerating
    shouldStop,        \* let shouldStop
    timerInterval,     \* let timerInterval: an interval id, 0 for null
    timers,            \* ids of the intervals the browser still fires
    apiKeyInput,       \* apiKeyInput.value
    rememberApiKey,    \* rememberApiKeyCheckbox.checked
    localStorage,      \* localStorage[CONFIG.API_KEY_STORAGE_KEY], Null if absent
    cards,             \* every card element created since page load, by handle
    resultsContainer,  \* handles of the children of resultsContainer, in order
    ui,                \* disabled / display state of the controls
    progress,          \* progressFill width and progressText
    errorDisplay,      \* the error banner
    run,               \* locals and position of the runIterations activation
    netLog,            \* requests sent to the two endpoints since page load
    live,              \* runIterations activations alive, requests not yet settled
    hist,              \* facts about the latest run that the code keeps no record of
    exp,               \* locals and position of the handleExportPDF activation
    download           \* the document pdf.save() wrote last

runVars == <<isGenerating, shouldStop, timerInterval, timers, run, netLog, live, hist>>
credVars == <<apiKeyInput, rememberApiKey, localStorage>>
domVars == <<cards, resultsContainer, ui, progress, errorDisplay>>

exportVars == <<exp, download>>

vars == <<runVars, credVars, domVars, exportVars>>

\* ----------------------------------------------------------------- cards
Loading == [kind |-> "loading", val |-> <<>>]
Generating == [kind |-> "pending", val |-> <<"Generating...">>]
FinalImage == [kind |-> "final", val |-> <<"Generation complete!">>]

createIterationCard(iterationNum) ==
    [id |-> iterationNum, image |-> Loading, desc |-> Generating]

displayImage(card, imageUrl) ==
    [card EXCEPT !.image = [kind |-> "img", val |-> imageUrl]]

\* An error display that leaves the loading placeholder in the card.
displayImageErrorUnmarked(card, errorMessage) == card

displayImageError(card, errorMessage) ==
    [card EXCEPT !.image =
        [kind |-> "error", val |-> <<"Failed to generate image: ">> \o errorMessage]]

\* A display that drops the description once a stop was asked for.
displayDescriptionUnlessStopped(card, description) ==
    IF shouldStop THEN card
    ELSE [card EXCEPT !.desc = [kind |-> "text", val |-> description]]

displayDescription(card, description) ==
    [card EXCEPT !.desc = [kind |-> "text", val |-> description]]

\* An error display that rewrites the whole card and loses its image.
displayDescriptionErrorWholeCard(card, errorMessage) ==
    [card EXCEPT !.image = Loading,
                 !.desc = [kind |-> "error",
                           val |-> <<"Failed to generate description: ">> \o errorMessage]]

displayDescriptionError(card, errorMessage) ==
    [card EXCEPT !.desc =
        [kind |-> "error", val |-> <<"Failed to generate description: ">> \o errorMessage]]

\* lines 156-159: the description container of the last card
displayFinal(card) == [card EXCEPT !.desc = FinalImage]

\* -------------------------------------------------------------- controls
setUIState(u, generating) ==
    [u EXCEPT !.startDisabled = generating,
              !.stopDisplayed = generating,
              !.inputsDisabled = generating,
              !.progressDisplayed = IF generating THEN TRUE ELSE @]

\* progressText.textContent; the messages that carry numbers keep them apart.
updateProgress(current, total, message, i, n) == [msg |-> message, i |-> i, n |-> n]

showError(message) == [shown |-> TRUE, text |-> message]

hideError(e) == [e EXCEPT !.shown = FALSE]

\* startTimer: setInterval hands out an id no live interval has.
NewTimerId == CHOOSE id \in 1..(Cardinality(timers) + 1) : id \notin timers

startTimer ==
    /\ timerInterval' = NewTimerId
    /\ timers' = timers \cup {NewTimerId}

\* A stopTimer that leaves the interval running.
stopTimerForgets == UNCHANGED <<timers, timerInterval>>

stopTimer ==
    IF timerInterval # 0
    THEN /\ timers' = timers \ {timerInterval}
         /\ timerInterval' = 0
    ELSE UNCHANGED <<timers, timerInterval>>

\* ------------------------------------------------------- request client
Thrown(message) == [threw |-> TRUE, val |-> message]
Returned(value) == [threw |-> FALSE, val |-> value]

NoBody == [parses |-> FALSE, message |-> Null, value |-> Null]

\* Bodies a response can carry: JSON with the expected field, an error
\* envelope with or without a message, or text that is not JSON.
Bodies(ok, values) ==
    IF ok
    THEN { [parses |-> TRUE, message |-> Null, value |-> v] : v \in values } \cup {NoBody}
    ELSE { [parses |-> TRUE, message |-> ApiMessage, value |-> Null],
           [parses |-> TRUE, message |-> Null, value |-> Null],
           NoBody }

\* generateImage / describeImage after fetch resolved: response.json()
\* throws on a body that is not JSON, whatever response.ok is.
responseResult(ok, body, generic) ==
    IF ~body.parses THEN Thrown(MsgJsonSyntax)
    ELSE IF ~ok THEN Thrown(IF Truthy(body.message) THEN body.message ELSE generic)
    ELSE Returned(body.value)

generateImage(ok, body) == responseResult(ok, body, MsgGenerateFailed)

describeImage(ok, body) == responseResult(ok, body, MsgDescribeFailed)

\* ------------------------------------------------------------- exporter
\* jsPDF('p', 'mm', 'a4'): the page in millimetres.  jsPDF reports 210.0016
\* by 297.0001; every cursor and height of the model is a whole number, and
\* the comparisons of lines 426, 446 and 462 come out the same on both.
PageWidth == 210
PageHeight == 297
Margin == 15
ContentWidth == PageWidth - (Margin * 2)

DataPrefix == <<"d", "a", "t", "a", ":">>

\* naturalWidth and naturalHeight of the image a URL points to.
NaturalSize(url) ==
    IF url = DataUrl THEN [w |-> 1024, h |-> 1024]
    ELSE IF url = HttpsUrl THEN [w |-> 1024, h |-> 1280]
    ELSE [w |-> 1024, h |-> 1536]

\* jsPDF's splitTextToSize(text, contentWidth).length
SplitLines(text) == IF text = LongDesc THEN 60 ELSE 1

NoDocument == [pages |-> 0, ops |-> <<>>]

IdleExport == [pc |-> "idle", cards |-> <<>>, i |-> 0, yPosition |-> 0, pdf |-> NoDocument]

addPage(pdf) == [pdf EXCEPT !.pages = @ + 1]

Draw(pdf, kind, y, h, lines) ==
    [pdf EXCEPT !.ops = Append(@, [kind |-> kind, page |-> pdf.pages, y |-> y, h |-> h,
                                   lines |-> lines])]

\* lines 401-416: a new document with the title block
NewDocument ==
    [yPosition |-> Margin + 30,
     pdf |-> Draw(Draw([pages |-> 1, ops |-> <<>>], "title", Margin + 10, 0, 1),
                  "date", Margin + 17, 0, 1)]

\* lines 425-435
ExportHeading(st) ==
    LET brk == st.yPosition > PageHeight - 100
        y == IF brk THEN Margin ELSE st.yPosition
        pdf == IF brk THEN addPage(st.pdf) ELSE st.pdf
    IN  [yPosition |-> y + 10, pdf |-> Draw(pdf, "heading", y, 0, 1)]

\* A fit test that forgets the bottom margin.
ExportImageToPageEdge(st, url) ==
    LET size == NaturalSize(url)
        imgHeight == (size.h * ContentWidth) \div size.w
        brk == st.yPosition + imgHeight > PageHeight
        y == IF brk THEN Margin ELSE st.yPosition
        pdf == IF brk THEN addPage(st.pdf) ELSE st.pdf
    IN  [yPosition |-> y + imgHeight + 10, pdf |-> Draw(pdf, "image", y, imgHeight, 0)]

\* lines 442-452
ExportImage(st, url) ==
    LET size == NaturalSize(url)
        imgHeight == (size.h * ContentWidth) \div size.w
        brk == st.yPosition + imgHeight > PageHeight - Margin
        y == IF brk THEN Margin ELSE st.yPosition
        pdf == IF brk THEN addPage(st.pdf) ELSE st.pdf
    IN  [yPosition |-> y + imgHeight + 10, pdf |-> Draw(pdf, "image", y, imgHeight, 0)]

\* lines 458-478
ExportDescription(st, card) ==
    LET text == card.desc.val
    IN  IF text # <<"Generating...">> /\ text # <<"Generation complete!">>
        THEN LET brk == st.yPosition > PageHeight - 50
                 y == IF brk THEN Margin ELSE st.yPosition
                 pdf == IF brk THEN addPage(st.pdf) ELSE st.pdf
                 n == SplitLines(text)
             IN  [yPosition |-> y + 7 + (n * 5) + 15,
                  pdf |-> Draw(Draw(pdf, "label", y, 0, 1), "text", y + 7, 0, n)]
        ELSE st

\* lines 421-479: the loop from card i on, up to the first await that does
\* not settle at once (getImageData of a URL that is no data: URL) or to the
\* end of the loop.
RECURSIVE ExportLoop(_, _, _)
ExportLoop(snapshot, i, st) ==
    IF i > Len(snapshot)
    THEN [done |-> TRUE, i |-> i, st |-> st]
    ELSE LET card == cards[snapshot[i]]
             headed == ExportHeading(st)
         IN  IF card.image.kind = "img"
             THEN IF StartsWith(card.image.val, DataPrefix)
                  THEN ExportLoop(snapshot, i + 1,
                                  ExportDescription(ExportImage(headed, card.image.val), card))
                  ELSE [done |-> FALSE, i |-> i, st |-> headed]
             ELSE ExportLoop(snapshot, i + 1, ExportDescription(headed, card))

\* The activation goes on from a loop result: it waits for the image, or
\* saves the document and resets the button (lines 481-487).
ExportContinue(snapshot, r) ==
    IF r.done
    THEN /\ download' = r.st.pdf
         /\ exp' = IdleExport
         /\ ui' = [ui EXCEPT !.exportDisabled = FALSE]
    ELSE /\ exp' = [pc |-> "image", cards |-> snapshot, i |-> r.i,
                    yPosition |-> r.st.yPosition, pdf |-> r.st.pdf]
         /\ ui' = [ui EXCEPT !.exportDisabled = TRUE]
         /\ UNCHANGED download

\* A click reaches the handler only while the button is shown and enabled.
handleExportPDF ==
    /\ ui.exportDisplayed /\ ~ui.exportDisabled
    /\ ExportContinue(resultsContainer, ExportLoop(resultsContainer, 1, NewDocument))
    /\ UNCHANGED <<runVars, credVars, cards, resultsContainer, progress, errorDisplay>>

\* An export in which an image that fails to load ends the whole export in
\* the outer catch (lines 489-494) instead of the inner one.
ExportImageResolveAborts(loaded) ==
    /\ exp.pc = "image"
    /\ IF loaded
       THEN LET card == cards[exp.cards[exp.i]]
                st == [yPosition |-> exp.yPosition, pdf |-> exp.pdf]
            IN  /\ ExportContinue(exp.cards,
                                  ExportLoop(exp.cards, exp.i + 1,
                                             ExportDescription(
                                                 ExportImage(st, card.image.val), card)))
                /\ UNCHANGED errorDisplay
       ELSE /\ exp' = IdleExport
            /\ ui' = [ui EXCEPT !.exportDisabled = FALSE]
            /\ errorDisplay' = showError(<<"Failed to export PDF: ">>)
            /\ UNCHANGED download
    /\ UNCHANGED <<runVars, credVars, cards, resultsContainer, progress>>

\* getImageData settles: the image loaded and was drawn to the canvas, or
\* img.onerror rejected and line 453 swallows it.
ExportImageResolve(loaded) ==
    /\ exp.pc = "image"
    /\ LET card == cards[exp.cards[exp.i]]
           st == [yPosition |-> exp.yPosition, pdf |-> exp.pdf]
           drawn == IF loaded THEN ExportImage(st, card.image.val) ELSE st
       IN  ExportContinue(exp.cards, ExportLoop(exp.cards, exp.i + 1,
                                                ExportDescription(drawn, card)))
    /\ UNCHANGED <<runVars, credVars, cards, resultsContainer, progress, errorDisplay>>

\* ------------------------------------------------------------------ Init
IdleRun ==
    [pc |-> "idle", i |-> 0, iterations |-> 0, currentPrompt |-> Null,
     apiKey |-> Null, imageUrl |-> Null, card |-> 0, ok |-> FALSE]

NoHist ==
    [n |-> 0, firstCard |-> 0, logStart |-> 0, stopPc |-> "none", stopI |-> 0,
     cleared |-> FALSE, exit |-> "none", restored |-> FALSE]

InitialUi ==
    [startDisabled |-> FALSE, stopDisplayed |-> FALSE, stopDisabled |-> FALSE,
     inputsDisabled |-> FALSE, progressDisplayed |-> FALSE,
     exportDisplayed |-> FALSE, exportDisabled |-> FALSE]

InitialError == [shown |-> FALSE, text |-> <<>>]

Init ==
    /\ isGenerating = FALSE
    /\ shouldStop = FALSE
    /\ timerInterval = 0
    /\ timers = {}
    /\ cards = <<>>
    /\ resultsContainer = <<>>
    /\ ui = InitialUi
    /\ progress = updateProgress(0, 1, "", 0, 0)
    /\ errorDisplay = InitialError
    /\ run = IdleRun
    /\ netLog = <<>>
    /\ hist = NoHist
    /\ live = [runs |-> 0, calls |-> 0]
    /\ exp = IdleExport
    /\ download = NoDocument
    /\ localStorage = Null
    /\ apiKeyInput = <<>>
    /\ rememberApiKey = FALSE

\* ------------------------------------------------------- iteration engine
\* line 67: the guard of handleFormSubmit
Busy == isGenerating

\* A submit that saves the credential whatever the checkbox says.
SavesApiKeyAlways == TRUE

\* line 81: is the credential saved by this submit
SavesApiKey == rememberApiKey

\* line 118: the stop flag at the top of an iteration
StopAtTop == shouldStop

\* The loop without its second look at the stop flag.
StopBeforeDescribeNever == FALSE

\* line 142: the stop flag before the description step
StopBeforeDescribe == shouldStop

\* A last-iteration test that is off by one: the last image is described too.
WantsDescriptionAlways(i, iterations) == i <= iterations

\* line 141: is a description wanted after image i
WantsDescription(i, iterations) == i < iterations

\* An end of the loop that reports completion whatever the stop flag says.
CleanFinishAlways == TRUE

\* line 165: the loop ended and no stop was asked for
CleanFinish == ~shouldStop

\* A loop that never replaces the prompt it started with.
NextPromptStale(currentPrompt, description) == currentPrompt

\* line 149: the prompt of the next iteration
NextPrompt(currentPrompt, description) == description

\* lines 177-181: the finally block, and the end of the activation.
Finally(uiNow, exit) ==
    /\ isGenerating' = FALSE
    /\ ui' = setUIState(uiNow, FALSE)
    /\ stopTimer
    /\ run' = IdleRun
    /\ hist' = [hist EXCEPT !.exit = exit]

\* lines 165-172: after the loop
AfterLoop(exit) ==
    IF CleanFinish
    THEN /\ progress' = updateProgress(run.iterations, run.iterations,
                                       "All iterations complete!", 0, 0)
         /\ Finally(IF Len(resultsContainer) > 0
                    THEN [ui EXCEPT !.exportDisplayed = TRUE] ELSE ui, exit)
    ELSE Finally(ui, exit)

\* lines 123-133: one pass through the top of the loop body, up to the
\* await of generateImage, when the stop flag is not set.  calls is the
\* number of requests outstanding before this one.
BeginIteration(i, iterations, currentPrompt, apiKey, cardsNow, calls) ==
    /\ progress' = updateProgress(i, iterations, "Generating image", i, iterations)
    /\ cards' = Append(cardsNow, createIterationCard(i))
    /\ resultsContainer' = Append(resultsContainer, Len(cardsNow) + 1)
    /\ netLog' = Append(netLog, [op |-> "generateImage", i |-> i, payload |-> currentPrompt])
    /\ run' = [pc |-> "genFetch", i |-> i, iterations |-> iterations,
               currentPrompt |-> currentPrompt, apiKey |-> apiKey,
               imageUrl |-> Null, card |-> Len(cardsNow) + 1, ok |-> FALSE]
    /\ live' = [runs |-> live.runs + (IF i = 1 THEN 1 ELSE 0), calls |-> calls + 1]

\* A run that starts with the stop flag as the last run left it.
StopFlagAtStartKept == shouldStop

\* line 108: the stop flag at the start of a run
StopFlagAtStart == FALSE

\* lines 106-133: runIterations from its entry to the first await.  With a
\* count below 1 (or NaN) the loop body never runs and the activation ends
\* before any await.
runIterations(initialPrompt, iterations, apiKey) ==
    /\ shouldStop' = StopFlagAtStart
    /\ IF ~iterations.nan /\ 1 <= iterations.val
       THEN /\ isGenerating' = TRUE
            /\ ui' = setUIState(ui, TRUE)
            /\ startTimer
            /\ BeginIteration(1, iterations.val, initialPrompt, apiKey, cards, live.calls)
            /\ hist' = [n |-> iterations.val, firstCard |-> Len(cards) + 1,
                        logStart |-> Len(netLog), stopPc |-> "none", stopI |-> 0,
                        cleared |-> FALSE, exit |-> "running", restored |-> hist.restored]
       ELSE /\ isGenerating' = FALSE
            /\ ui' = setUIState(IF Len(resultsContainer) > 0
                                THEN [setUIState(ui, TRUE) EXCEPT !.exportDisplayed = TRUE]
                                ELSE setUIState(ui, TRUE), FALSE)
            /\ timerInterval' = 0
            /\ progress' = updateProgress(iterations.val, iterations.val,
                                          "All iterations complete!", 0, 0)
            /\ run' = IdleRun
            /\ hist' = [n |-> iterations.val, firstCard |-> Len(cards) + 1,
                        logStart |-> Len(netLog), stopPc |-> "none", stopI |-> 0,
                        cleared |-> FALSE, exit |-> "loopEnd", restored |-> hist.restored]
            /\ UNCHANGED <<timers, cards, resultsContainer, netLog, live>>

handleFormSubmit(promptValue, iterationsValue) ==
    LET prompt == Trim(promptValue)
        iterations == ParseInt(iterationsValue)
        apiKey == Trim(apiKeyInput)
        validationError == validateInputs(prompt, iterations, apiKey)
    IN  IF Busy
        THEN UNCHANGED vars
        ELSE IF validationError # Null
        THEN /\ errorDisplay' = showError(validationError)
             /\ UNCHANGED <<runVars, credVars, exportVars, cards, resultsContainer, ui,
                            progress>>
        ELSE /\ localStorage' = IF SavesApiKey THEN apiKey ELSE localStorage
             /\ errorDisplay' = hideError(errorDisplay)
             /\ runIterations(prompt, iterations, apiKey)
             /\ UNCHANGED <<apiKeyInput, rememberApiKey, exportVars>>

\* The request of the activation has settled.
Settled == [live EXCEPT !.calls = @ - 1]

\* The activation has ended.
Ended(l) == [l EXCEPT !.runs = @ - 1]

\* lines 135-138 and 174-181: generateImage threw.
ImageFailed(message) ==
    /\ cards' = [cards EXCEPT ![run.card] = displayImageError(@, message)]
    /\ errorDisplay' = showError(<<"Error: ">> \o message)
    /\ Finally(ui, "catch")
    /\ live' = Ended(Settled)
    /\ UNCHANGED <<shouldStop, netLog, resultsContainer, progress>>

\* lines 150-153 and 174-181: describeImage threw.
DescriptionFailed(message) ==
    /\ cards' = [cards EXCEPT ![run.card] = displayDescriptionError(@, message)]
    /\ errorDisplay' = showError(<<"Error: ">> \o message)
    /\ Finally(ui, "catch")
    /\ live' = Ended(Settled)
    /\ UNCHANGED <<shouldStop, netLog, resultsContainer, progress>>

\* lines 134-172 after generateImage returned imageUrl.
ImageSucceeded(imageUrl) ==
    LET shown == [cards EXCEPT ![run.card] = displayImage(@, imageUrl)]
    IN  IF WantsDescription(run.i, run.iterations)
        THEN IF StopBeforeDescribe
             THEN \* line 142: break
                  /\ cards' = shown
                  /\ AfterLoop("breakDescribe")
                  /\ live' = Ended(Settled)
                  /\ IF CleanFinish THEN TRUE ELSE UNCHANGED progress
                  /\ UNCHANGED <<shouldStop, netLog, resultsContainer, errorDisplay>>
             ELSE /\ cards' = shown
                  /\ progress' = updateProgress(run.i, run.iterations, "Describing image",
                                                run.i, run.iterations)
                  /\ netLog' = Append(netLog, [op |-> "describeImage", i |-> run.i,
                                               payload |-> imageUrl])
                  /\ run' = [run EXCEPT !.pc = "descFetch", !.imageUrl = imageUrl]
                  /\ live' = [Settled EXCEPT !.calls = @ + 1]
                  /\ UNCHANGED <<isGenerating, shouldStop, timerInterval, timers, hist,
                                 resultsContainer, ui, errorDisplay>>
        ELSE \* lines 155-172: the last iteration, then the loop ends
             /\ cards' = [shown EXCEPT ![run.card] = displayFinal(@)]
             /\ AfterLoop("loopEnd")
             /\ IF CleanFinish THEN TRUE
                ELSE progress' = updateProgress(run.i, run.iterations,
                                                "Completed iteration", run.i, run.iterations)
             /\ live' = Ended(Settled)
             /\ UNCHANGED <<shouldStop, netLog, resultsContainer, errorDisplay>>

\* lines 148-149, 162 and the next pass through lines 117-133.
DescriptionSucceeded(description) ==
    LET shown == [cards EXCEPT ![run.card] = displayDescription(@, description)]
    IN  IF StopAtTop
        THEN \* lines 118-121
             /\ cards' = shown
             /\ errorDisplay' = showError(MsgStopped)
             /\ AfterLoop("breakTop")
             /\ IF CleanFinish THEN TRUE
                ELSE progress' = updateProgress(run.i, run.iterations,
                                                "Completed iteration", run.i, run.iterations)
             /\ live' = Ended(Settled)
             /\ UNCHANGED <<shouldStop, netLog, resultsContainer>>
        ELSE /\ BeginIteration(run.i + 1, run.iterations,
                               NextPrompt(run.currentPrompt, description), run.apiKey,
                               shown, Settled.calls)
             /\ UNCHANGED <<isGenerating, shouldStop, timerInterval, timers, hist, ui,
                            errorDisplay>>

\* fetch of generateImage settles: rejected, or a response with its status.
GenFetchResolve(outcome) ==
    /\ run.pc = "genFetch"
    /\ IF outcome = "reject"
       THEN ImageFailed(MsgFetchRejected)
       ELSE /\ run' = [run EXCEPT !.pc = "genJson", !.ok = (outcome = "ok")]
            /\ UNCHANGED <<isGenerating, shouldStop, timerInterval, timers, netLog, live, hist,
                           cards, resultsContainer, ui, progress, errorDisplay>>
    /\ UNCHANGED <<credVars, exportVars>>

\* response.json() of generateImage settles.
GenJsonResolve(body) ==
    /\ run.pc = "genJson"
    /\ LET r == generateImage(run.ok, body)
       IN  IF r.threw THEN ImageFailed(r.val) ELSE ImageSucceeded(r.val)
    /\ UNCHANGED <<credVars, exportVars>>

DescFetchResolve(outcome) ==
    /\ run.pc = "descFetch"
    /\ IF outcome = "reject"
       THEN DescriptionFailed(MsgFetchRejected)
       ELSE /\ run' = [run EXCEPT !.pc = "descJson", !.ok = (outcome = "ok")]
            /\ UNCHANGED <<isGenerating, shouldStop, timerInterval, timers, netLog, live, hist,
                           cards, resultsContainer, ui, progress, errorDisplay>>
    /\ UNCHANGED <<credVars, exportVars>>

DescJsonResolve(body) ==
    /\ run.pc = "descJson"
    /\ LET r == describeImage(run.ok, body)
       IN  IF r.threw THEN DescriptionFailed(r.val) ELSE DescriptionSucceeded(r.val)
    /\ UNCHANGED <<credVars, exportVars>>

FetchOutcomes == {"ok", "notok", "reject"}

\* ---------------------------------------------------------- other handlers
\* A click reaches the handler only while the button is shown and enabled.
handleStop ==
    /\ ui.stopDisplayed /\ ~ui.stopDisabled
    /\ shouldStop' = TRUE
    /\ ui' = [ui EXCEPT !.stopDisabled = TRUE]
    /\ progress' = updateProgress(0, 1, "Stopping...", 0, 0)
    /\ hist' = IF isGenerating /\ hist.stopPc = "none"
               THEN [hist EXCEPT !.stopPc = run.pc, !.stopI = run.i] ELSE hist
    /\ UNCHANGED <<isGenerating, timerInterval, timers, run, netLog, live, credVars, cards,
                   resultsContainer, errorDisplay, exportVars>>

handleClear ==
    /\ resultsContainer' = <<>>
    /\ errorDisplay' = hideError(errorDisplay)
    /\ ui' = [ui EXCEPT !.progressDisplayed = FALSE, !.exportDisplayed = FALSE]
    /\ hist' = [hist EXCEPT !.cleared = TRUE]
    /\ UNCHANGED <<isGenerating, shouldStop, timerInterval, timers, run, netLog, live,
                   credVars, cards, progress, exportVars>>

\* The change event arrives with the box already flipped.
handleRememberApiKeyToggle ==
    /\ rememberApiKey' = ~rememberApiKey
    /\ localStorage' = IF rememberApiKey' THEN apiKeyInput ELSE Null
    /\ UNCHANGED <<apiKeyInput, runVars, domVars, exportVars>>

\* The user types into the credential field (disabled during a run).
EditApiKey(value) ==
    /\ ~ui.inputsDisabled
    /\ value # apiKeyInput
    /\ apiKeyInput' = value
    /\ UNCHANGED <<rememberApiKey, localStorage, runVars, domVars, exportVars>>

loadApiKeyFromStorage ==
    LET savedApiKey == localStorage
    IN  IF Truthy(savedApiKey)
        THEN apiKeyInput' = savedApiKey /\ rememberApiKey' = TRUE
        ELSE apiKeyInput' = <<>> /\ rememberApiKey' = FALSE

\* The page is loaded again: the script state starts over, pending requests
\* and intervals die with the old page, localStorage survives.
Reload ==
    /\ isGenerating' = FALSE
    /\ shouldStop' = FALSE
    /\ timerInterval' = 0
    /\ timers' = {}
    /\ cards' = <<>>
    /\ resultsContainer' = <<>>
    /\ ui' = InitialUi
    /\ progress' = updateProgress(0, 1, "", 0, 0)
    /\ errorDisplay' = InitialError
    /\ run' = IdleRun
    /\ netLog' = <<>>
    /\ hist' = [NoHist EXCEPT !.restored = Truthy(localStorage)]
    /\ live' = [runs |-> 0, calls |-> 0]
    /\ exp' = IdleExport
    /\ download' = NoDocument
    /\ UNCHANGED localStorage
    /\ loadApiKeyFromStorage

\* Response bodies without the variety of failures.
PlainBodies(ok, values) ==
    IF ok THEN { [parses |-> TRUE, message |-> Null, value |-> v] : v \in values }
    ELSE { [parses |-> TRUE, message |-> ApiMessage, value |-> Null] }

\* The page holds at most max cards: a count the form accepts is offered
\* only while the cards it asks for still fit.
CardsFit(iterationsValue, max) ==
    LET iterations == ParseInt(iterationsValue)
    IN  \/ IterationsInvalid(iterations)
        \/ Len(cards) + iterations.val <= max

\* The iteration engine under every input of the form.
EngineNext ==
    \/ \E p \in PromptInputs, n \in IterationInputs(MaxCards) :
            CardsFit(n, MaxCards) /\ handleFormSubmit(p, n)
    \/ \E o \in FetchOutcomes : GenFetchResolve(o)
    \/ \E b \in PlainBodies(run.ok, {DataUrl}) : GenJsonResolve(b)
    \/ \E o \in FetchOutcomes : DescFetchResolve(o)
    \/ \E b \in PlainBodies(run.ok, {ShortDesc}) : DescJsonResolve(b)
    \/ handleStop
    \/ handleClear
    \/ \E v \in {PaddedKey, OtherKey} : EditApiKey(v)

EngineSpec == Init /\ [][EngineNext]_vars

\* The form and the stored credential: every input of the form, the
\* checkbox and page loads, with requests that succeed.
CredNext ==
    \/ \E p \in PromptInputs, n \in IterationInputs(MaxCredCards) :
            CardsFit(n, MaxCredCards) /\ handleFormSubmit(p, n)
    \/ GenFetchResolve("ok")
    \/ \E b \in PlainBodies(run.ok, {DataUrl}) : GenJsonResolve(b)
    \/ DescFetchResolve("ok")
    \/ \E b \in PlainBodies(run.ok, {ShortDesc}) : DescJsonResolve(b)
    \/ \E v \in ApiKeyInputs : EditApiKey(v)
    \/ handleRememberApiKeyToggle
    \/ Reload

CredSpec == Init /\ [][CredNext]_vars

\* The exporter over cards of every shape: images of three heights, short
\* and long descriptions, cards whose image request failed.
ExportNext ==
    \/ \E n \in 1..MaxExportCards :
            CardsFit(Numeral(n), MaxExportCards) /\ handleFormSubmit(SomePrompt, Numeral(n))
    \/ \E o \in {"ok", "reject"} : GenFetchResolve(o)
    \/ \E b \in PlainBodies(run.ok, Urls) : GenJsonResolve(b)
    \/ DescFetchResolve("ok")
    \/ \E b \in PlainBodies(run.ok, Descriptions) : DescJsonResolve(b)
    \/ EditApiKey(PaddedKey)
    \/ handleClear
    \/ handleExportPDF
    \/ \E loaded \in BOOLEAN : ExportImageResolve(loaded)

ExportSpec == Init /\ [][ExportNext]_vars

\* The engine with answers that differ from one request to the next: two
\* image URLs and two descriptions, so that what a request carries can be
\* told from what an earlier one carried.
ChainNext ==
    \/ \E n \in 1..MaxChainCards :
            CardsFit(Numeral(n), MaxChainCards) /\ handleFormSubmit(SomePrompt, Numeral(n))
    \/ GenFetchResolve("ok")
    \/ \E b \in PlainBodies(run.ok, {DataUrl, HttpsUrl}) : GenJsonResolve(b)
    \/ DescFetchResolve("ok")
    \/ \E b \in PlainBodies(run.ok, Descriptions) : DescJsonResolve(b)
    \/ handleStop
    \/ handleClear
    \/ EditApiKey(PaddedKey)

ChainSpec == Init /\ [][ChainNext]_vars

\* The exporter over what the configured requests give: square images
\* (IMAGE_SIZE 1024x1024) as data: URLs, descriptions of one line and of many.
PageNext ==
    \/ \E n \in 1..MaxPageCards :
            CardsFit(Numeral(n), MaxPageCards) /\ handleFormSubmit(SomePrompt, Numeral(n))
    \/ GenFetchResolve("ok")
    \/ \E b \in PlainBodies(run.ok, {DataUrl}) : GenJsonResolve(b)
    \/ DescFetchResolve("ok")
    \/ \E b \in PlainBodies(run.ok, Descriptions) : DescJsonResolve(b)
    \/ EditApiKey(PaddedKey)
    \/ handleStop
    \/ handleClear
    \/ handleExportPDF

PageSpec == Init /\ [][PageNext]_vars

\* The request client under every answer: fetch rejected, success, and
\* non-success with an error envelope that has a message, with one that has
\* none, and with a body that is not JSON.
FailureNext ==
    \/ \E n \in 1..MaxFailCards :
            CardsFit(Numeral(n), MaxFailCards) /\ handleFormSubmit(SomePrompt, Numeral(n))
    \/ \E o \in FetchOutcomes : GenFetchResolve(o)
    \/ \E b \in Bodies(run.ok, {DataUrl}) : GenJsonResolve(b)
    \/ \E o \in FetchOutcomes : DescFetchResolve(o)
    \/ \E b \in Bodies(run.ok, {ShortDesc}) : DescJsonResolve(b)
    \/ EditApiKey(PaddedKey)

FailureSpec == Init /\ [][FailureNext]_vars

\* The engine with the guarantee that a request in flight settles: fetch
\* resolves or rejects, and response.json() resolves or rejects.
LiveNext ==
    \/ \E n \in 1..MaxLiveCards :
            CardsFit(Numeral(n), MaxLiveCards) /\ handleFormSubmit(SomePrompt, Numeral(n))
    \/ \E o \in FetchOutcomes : GenFetchResolve(o)
    \/ \E b \in PlainBodies(run.ok, {DataUrl}) : GenJsonResolve(b)
    \/ \E o \in FetchOutcomes : DescFetchResolve(o)
    \/ \E b \in PlainBodies(run.ok, {ShortDesc}) : DescJsonResolve(b)
    \/ handleStop
    \/ handleClear
    \/ EditApiKey(PaddedKey)

LiveSpec ==
    /\ Init
    /\ [][LiveNext]_vars
    /\ WF_vars(\E o \in FetchOutcomes : GenFetchResolve(o))
    /\ WF_vars(\E b \in PlainBodies(run.ok, {DataUrl}) : GenJsonResolve(b))
    /\ WF_vars(\E o \in FetchOutcomes : DescFetchResolve(o))
    /\ WF_vars(\E b \in PlainBodies(run.ok, {ShortDesc}) : DescJsonResolve(b))

\* Every handler of the page, the exporter included.
Next ==
    \/ \E p \in {BlankPrompt, SomePrompt}, n \in {<<"0">>} \cup {Numeral(k) : k \in 1..MaxExportCards} :
            CardsFit(n, MaxExportCards) /\ handleFormSubmit(p, n)
    \/ \E o \in FetchOutcomes : GenFetchResolve(o)
    \/ \E b \in PlainBodies(run.ok, {HttpsUrl}) : GenJsonResolve(b)
    \/ \E o \in FetchOutcomes : DescFetchResolve(o)
    \/ \E b \in PlainBodies(run.ok, {ShortDesc}) : DescJsonResolve(b)
    \/ handleStop
    \/ handleClear
    \/ \E v \in {PaddedKey, OtherKey} : EditApiKey(v)
    \/ handleExportPDF
    \/ \E loaded \in BOOLEAN : ExportImageResolve(loaded)

Spec == Init /\ [][Next]_vars

\* ================================================================ claims
\* The cards the latest run created, oldest first.
RunCard(k) == cards[hist.firstCard + k - 1]

\* The requests the latest run sent, oldest first.
RunLog == SubSeq(netLog, hist.logStart + 1, Len(netLog))

\* The latest run went through all its iterations with no failed request,
\* no stop request and no clear since it started.
CleanRunEnded ==
    /\ hist.exit = "loopEnd"
    /\ hist.stopPc = "none"
    /\ ~hist.cleared
    /\ hist.n >= 1

\* C1: a run of N iterations in which every request succeeds and neither
\* stop nor clear occurs leaves exactly N records, numbered 1..N in order;
\* records 1..N-1 have an image and a description, record N has an image and
\* the "Final Image" marker, and no describeImage request was sent for it.
C1_CleanRunRecords ==
    CleanRunEnded =>
        /\ Len(cards) = hist.firstCard + hist.n - 1
        /\ Len(resultsContainer) >= hist.n
        /\ \A k \in 1..hist.n :
              /\ resultsContainer[Len(resultsContainer) - hist.n + k] = hist.firstCard + k - 1
              /\ RunCard(k).id = k
              /\ RunCard(k).image.kind = "img"
              /\ RunCard(k).desc.kind = IF k < hist.n THEN "text" ELSE "final"
        /\ Len(RunLog) = 2 * hist.n - 1
        /\ \A j \in 1..Len(RunLog) :
              /\ RunLog[j].op = IF j % 2 = 1 THEN "generateImage" ELSE "describeImage"
              /\ RunLog[j].i = (j + 1) \div 2
        /\ ~\E j \in 1..Len(RunLog) : RunLog[j].op = "describeImage" /\ RunLog[j].i = hist.n

C1_Witness == CleanRunEnded /\ hist.n = 3 /\ hist.firstCard = 1

\* Requests the page has sent that have not settled: the fetch of the
\* activation of runIterations, and the image the exporter is loading
\* (getImageData sets img.src to a URL that is not a data: URL and waits for
\* onload or onerror).
Outstanding == live.calls + (IF exp.pc = "image" THEN 1 ELSE 0)

\* Image request i+1 of the latest run is in the log only when image request
\* i has resolved with an image.
ImageRequestsInOrder ==
    \A j \in 1..Len(RunLog) :
        (RunLog[j].op = "generateImage" /\ RunLog[j].i > 1 /\ hist.exit # "none")
            => RunCard(RunLog[j].i - 1).image.kind = "img"

\* At most one activation of runIterations is alive, it is alive exactly
\* while isGenerating is set, and it waits for at most one of its requests.
OneRunAtATime ==
    /\ live.runs = (IF isGenerating THEN 1 ELSE 0)
    /\ live.calls = (IF run.pc = "idle" THEN 0 ELSE 1)
    /\ isGenerating <=> run.pc # "idle"

\* C2: in every reachable state, whatever the interleaving of submit, stop,
\* clear and export events with the completions of requests, at most one run
\* is active and at most one network call is outstanding, and image request
\* i+1 is issued only after image request i has resolved.
C2_OneRunOneCall ==
    /\ OneRunAtATime
    /\ ImageRequestsInOrder
    /\ Outstanding <= 1

\* What the form holds makes a submission invalid: the values are taken as
\* the handler reads them (trimmed text, the integer parseInt finds).
InvalidSubmission(promptValue, iterationsValue) ==
    LET iterations == ParseInt(iterationsValue)
        apiKey == Trim(apiKeyInput)
    IN  \/ Trim(promptValue) = <<>>
        \/ iterations.nan
        \/ iterations.val < 1
        \/ iterations.val > 10
        \/ apiKey = <<>>
        \/ Len(apiKey) < 3
        \/ SubSeq(apiKey, 1, 3) # <<"s", "k", "-">>

\* C3: a submit on the idle page whose prompt is empty, whose count is not
\* a number or outside 1..10, or whose credential is empty or lacks the
\* "sk-" prefix shows a validation error and starts nothing: no request, no
\* card, isGenerating stays false, no timer, nothing written to storage.
C3_InvalidSubmitStartsNothing ==
    [][\A p \in PromptInputs, n \in IterationInputs(MaxCredCards) :
          (~isGenerating /\ InvalidSubmission(p, n) /\ handleFormSubmit(p, n))
              => /\ errorDisplay'.shown
                 /\ errorDisplay'.text \in { MsgPrompt, MsgIterations, MsgApiKey }
                 /\ ~isGenerating'
                 /\ timers' = {} /\ timerInterval' = 0
                 /\ netLog' = netLog
                 /\ live'.runs = 0 /\ live'.calls = 0
                 /\ cards' = cards /\ resultsContainer' = resultsContainer
                 /\ localStorage' = localStorage]_vars

\* A submit with a credential of the wrong prefix was refused after an
\* earlier run had left its card.
C3_Witness ==
    /\ errorDisplay = showError(MsgApiKey)
    /\ apiKeyInput = OtherKey
    /\ ~isGenerating
    /\ Len(cards) = 1

\* The step is the failure of the generateImage request in flight, with
\* error.message = message.
GenerateFails(message) ==
    \/ message = MsgFetchRejected /\ GenFetchResolve("reject")
    \/ /\ run.pc = "genJson"
       /\ \E b \in Bodies(run.ok, {DataUrl}) :
          /\ generateImage(run.ok, b) = Thrown(message)
          /\ GenJsonResolve(b)

\* The step is the failure of the describeImage request in flight.
DescribeFails(message) ==
    \/ message = MsgFetchRejected /\ DescFetchResolve("reject")
    \/ /\ run.pc = "descJson"
       /\ \E b \in Bodies(run.ok, {ShortDesc}) :
          /\ describeImage(run.ok, b) = Thrown(message)
          /\ DescJsonResolve(b)

FailureMessages ==
    { MsgFetchRejected, MsgJsonSyntax, ApiMessage, MsgGenerateFailed, MsgDescribeFailed }

\* The step ends the run: no activation, no request in flight, the flag off.
RunEnds ==
    /\ ~isGenerating'
    /\ run'.pc = "idle"
    /\ live'.runs = 0 /\ live'.calls = 0

\* The step creates no card and sends no request.
NothingStarted ==
    /\ Len(cards') = Len(cards)
    /\ resultsContainer' = resultsContainer
    /\ netLog' = netLog

\* C4: when the generateImage request of iteration k fails, card k shows the
\* failure with its message, no describeImage request is sent for k, no card
\* k+1 is created, the run ends without another request, and the message is
\* shown as the error of the run.
C4_GenerateFailureAborts ==
    [][\A m \in FailureMessages :
          GenerateFails(m)
              => /\ cards'[run.card].id = run.i
                 /\ cards'[run.card].image =
                        [kind |-> "error", val |-> <<"Failed to generate image: ">> \o m]
                 /\ NothingStarted
                 /\ netLog[Len(netLog)] = [op |-> "generateImage", i |-> run.i,
                                            payload |-> run.currentPrompt]
                 /\ RunEnds
                 /\ errorDisplay' = [shown |-> TRUE, text |-> <<"Error: ">> \o m]]_vars

\* The second image request of a run of three failed.
C4_Witness ==
    /\ hist.exit = "catch"
    /\ hist.n = 3
    /\ Len(cards) = 2
    /\ cards[2].image.kind = "error"
    /\ cards[1].desc.kind = "text"

\* The step is the success of the generateImage request in flight.
GenerateSucceeds ==
    /\ run.pc = "genJson"
    /\ \E b \in Bodies(run.ok, {DataUrl}) :
        /\ ~generateImage(run.ok, b).threw
        /\ GenJsonResolve(b)

\* C5: when stop is asked for while the image request of iteration k < N is
\* in flight, then once the image arrives the loop stops after card k: the
\* image is shown, no describeImage request is sent for k, no card k+1 is
\* created and the run ends without another request.
C5_StopBeforeDescription ==
    [][(/\ hist.stopPc \in {"genFetch", "genJson"}
        /\ hist.stopI = run.i
        /\ run.i < run.iterations
        /\ GenerateSucceeds)
           => /\ cards'[run.card].image.kind = "img"
              /\ cards'[run.card].desc = cards[run.card].desc
              /\ netLog[Len(netLog)].op = "generateImage"
              /\ netLog[Len(netLog)].i = run.i
              /\ NothingStarted
              /\ RunEnds]_vars

\* Stop was asked for during the second image request of a run of three.
C5_Witness ==
    /\ hist.exit = "breakDescribe"
    /\ hist.n = 3
    /\ hist.stopI = 2
    /\ Len(cards) = 2
    /\ cards[2].image.kind = "img"

\* The step changes no card but the one of the iteration in progress.
OthersKept == \A h \in 1..Len(cards) : h # run.card => cards'[h] = cards[h]

\* After the step the cards of the iterations before the one in progress
\* have their image and their description.
EarlierComplete ==
    \A j \in 1..(run.i - 1) :
        /\ cards'[hist.firstCard + j - 1].id = j
        /\ cards'[hist.firstCard + j - 1].image.kind = "img"
        /\ cards'[hist.firstCard + j - 1].desc.kind = "text"

\* C6: a failed request rolls nothing back.  When describeImage of iteration
\* k fails, card k keeps its image, its description shows the failure, cards
\* 1..k-1 are unchanged with image and description, the run ends with that
\* error and no card k+1 is created; cards 1..k-1 are kept in the same way
\* when generateImage of iteration k fails.
C6_FailureKeepsEarlierResults ==
    [][\A m \in FailureMessages :
          /\ DescribeFails(m)
                => /\ cards[run.card].image.kind = "img"
                   /\ cards'[run.card].image = cards[run.card].image
                   /\ cards'[run.card].desc =
                          [kind |-> "error",
                           val |-> <<"Failed to generate description: ">> \o m]
                   /\ OthersKept
                   /\ EarlierComplete
                   /\ NothingStarted
                   /\ RunEnds
                   /\ errorDisplay' = [shown |-> TRUE, text |-> <<"Error: ">> \o m]
          /\ GenerateFails(m)
                => /\ OthersKept
                   /\ EarlierComplete
                   /\ NothingStarted
                   /\ RunEnds]_vars

\* The second description request of a run of three failed.
C6_Witness ==
    /\ hist.exit = "catch"
    /\ hist.n = 3
    /\ Len(cards) = 2
    /\ cards[1].desc.kind = "text"
    /\ cards[2].image.kind = "img"
    /\ cards[2].desc.kind = "error"

\* The latest run has ended.
RunOver == hist.exit \notin {"none", "running"}

\* C8: a stop request does not cut a request short.  A run that is alive is
\* waiting for its request whether or not stop was asked for, and the result
\* of the request that was in flight at the stop is on its card when the run
\* has ended: the image or its failure, the description or its failure.
C8_StopWaitsForTheCall ==
    /\ isGenerating => live.calls = 1
    /\ (RunOver /\ hist.stopPc \in {"genFetch", "genJson"})
          => RunCard(hist.stopI).image.kind \in {"img", "error"}
    /\ (RunOver /\ hist.stopPc \in {"descFetch", "descJson"})
          => /\ RunCard(hist.stopI).image.kind = "img"
             /\ RunCard(hist.stopI).desc.kind \in {"text", "error"}

\* Stop was asked for during a description request, which then succeeded.
C8_Witness ==
    /\ hist.exit = "breakTop"
    /\ hist.stopPc = "descFetch"
    /\ hist.stopI = 2
    /\ RunCard(2).desc.kind = "text"

\* C9: the stored credential follows the checkbox.  Storage holds a
\* credential only while the checkbox is checked; checking it stores the
\* content of the field and unchecking it removes what was stored; a page
\* load with a credential in storage puts it back in the field and checks
\* the box.
C9_StorageFollowsToggle ==
    /\ [](Truthy(localStorage) => rememberApiKey)
    /\ [][handleRememberApiKeyToggle
             => localStorage' = (IF rememberApiKey THEN Null ELSE apiKeyInput)]_vars
    /\ [][(Reload /\ Truthy(localStorage))
             => /\ apiKeyInput' = localStorage
                /\ rememberApiKey'
                /\ localStorage' = localStorage]_vars

\* The page was loaded with the credential the checkbox had stored, and
\* shows it again with the box checked.
C9_Witness ==
    /\ hist.restored
    /\ localStorage = PaddedKey
    /\ apiKeyInput = PaddedKey
    /\ rememberApiKey

\* The interval of the elapsed-time display runs exactly while a run is
\* active, and it is the only one.
TimerFollowsRun ==
    /\ isGenerating <=> timerInterval # 0
    /\ timers = (IF isGenerating THEN {timerInterval} ELSE {})
    /\ Cardinality(timers) <= 1
    /\ live.runs = 0 => (~isGenerating /\ timers = {})

\* C7: if every request in flight settles, every run that starts ends, and
\* at its end (completion, failure or stop) isGenerating is false and the
\* interval is cleared; the interval runs exactly while a run is active and
\* there is never more than one.
C7_RunEndsTimerStops ==
    /\ []TimerFollowsRun
    /\ isGenerating ~> (~isGenerating /\ timers = {} /\ timerInterval = 0)

\* A run was ended by a stop request, and its interval is gone.
C7_Witness ==
    /\ hist.exit = "breakDescribe"
    /\ ~isGenerating
    /\ timers = {}
    /\ timerInterval = 0

\* The image drawn by operation j of a document starts where the fit test
\* of line 446 puts it: the cursor is 10 below the heading before it; when
\* the image would pass the usable height there, it is on the next page at
\* the top margin, and on the page of the heading at the cursor otherwise.
ImageStartsWhereItFits(doc, j) ==
    LET image == doc.ops[j]
        heading == doc.ops[j - 1]
        cursor == heading.y + 10
    IN  /\ heading.kind = "heading"
        /\ image.page <= doc.pages
        /\ IF cursor + image.h > PageHeight - Margin
           THEN image.page = heading.page + 1 /\ image.y = Margin
           ELSE image.page = heading.page /\ image.y = cursor

\* C10: an image whose scaled height would take the cursor past the usable
\* height of the page (page height minus margin) is drawn on a page added
\* for it, starting at the top margin, in the document being built and in
\* the one saved.
C10_ImageStartsOnFreshPage ==
    \A doc \in {exp.pdf, download} :
        \A j \in 1..Len(doc.ops) :
            doc.ops[j].kind = "image" => ImageStartsWhereItFits(doc, j)

\* A saved document whose second card's image did not fit under its heading
\* on page 1 and starts page 2.
C10_Witness ==
    \E j \in 2..Len(download.ops) :
        /\ download.ops[j].kind = "image"
        /\ download.ops[j].page = 2
        /\ download.ops[j].y = Margin
        /\ download.ops[j - 1].page = 1
        /\ download.ops[j - 1].y + 10 + download.ops[j].h <= PageHeight

\* How many operations of a document draw a block of the given kind.
Blocks(doc, kind) == Cardinality({ j \in 1..Len(doc.ops) : doc.ops[j].kind = kind })

\* C11: an image that cannot be loaded for embedding costs the document that
\* image only.  The step in which getImageData rejects adds no image after
\* the heading already drawn for the card, draws the card's description if it
\* has one, goes on through the later cards (one heading for each card
\* reached), saves the document when no later image has to be waited for,
\* and leaves the error banner alone.
C11_ImageFailureIsolated ==
    [][(exp.pc = "image" /\ ExportImageResolve(FALSE))
          => LET saved == exp'.pc = "idle"
                 doc == IF saved THEN download' ELSE exp'.pdf
                 old == exp.pdf.ops
                 card == cards[exp.cards[exp.i]]
             IN  /\ Len(doc.ops) >= Len(old)
                 /\ SubSeq(doc.ops, 1, Len(old)) = old
                 /\ old[Len(old)].kind = "heading"
                 /\ Len(doc.ops) > Len(old) => doc.ops[Len(old) + 1].kind # "image"
                 /\ card.desc.kind \in {"text", "error"}
                       => /\ Len(doc.ops) >= Len(old) + 2
                          /\ doc.ops[Len(old) + 1].kind = "label"
                          /\ doc.ops[Len(old) + 2].kind = "text"
                 /\ Blocks(doc, "heading") = (IF saved THEN Len(exp.cards) ELSE exp'.i)
                 /\ saved => ~ui'.exportDisabled
                 /\ errorDisplay' = errorDisplay]_vars

\* A saved document of two cards in which the first card, which has a
\* description and so had an image, shows its description right under its
\* heading.
C11_Witness ==
    /\ Len(download.ops) >= 5
    /\ download.ops[3].kind = "heading"
    /\ download.ops[4].kind = "label"
    /\ Blocks(download, "heading") = 2

\* C12: the prompts are chained.  The first generateImage request of a run
\* carries the trimmed prompt of the form; describeImage request i carries
\* the URL that generateImage request i returned (the one shown on card i);
\* generateImage request i+1 carries the description that describeImage
\* request i returned (the one shown on card i).
C12_PromptChaining ==
    /\ Len(RunLog) >= 1
          => RunLog[1] = [op |-> "generateImage", i |-> 1, payload |-> <<"a">>]
    /\ \A j \in 1..Len(RunLog) :
          /\ RunLog[j].op = "describeImage"
                => /\ RunCard(RunLog[j].i).image.kind = "img"
                   /\ RunLog[j].payload = RunCard(RunLog[j].i).image.val
          /\ (RunLog[j].op = "generateImage" /\ RunLog[j].i > 1)
                => /\ RunCard(RunLog[j].i - 1).desc.kind = "text"
                   /\ RunLog[j].payload = RunCard(RunLog[j].i - 1).desc.val
                   /\ RunLog[j - 1].op = "describeImage"
                   /\ RunLog[j - 1].i = RunLog[j].i - 1

\* A run of three whose two descriptions differ: the third image request
\* carries the second description, not the first.
C12_Witness ==
    /\ hist.n = 3
    /\ hist.firstCard = 1
    /\ Len(RunLog) = 5
    /\ RunCard(1).desc.val = ShortDesc
    /\ RunCard(2).desc.val = LongDesc
    /\ RunCard(1).image.val = HttpsUrl
    /\ RunCard(2).image.val = DataUrl
    /\ RunLog[5].payload = LongDesc

\* The block an operation draws ends within the usable height of its page.
\* A text block of n lines takes n * 5 below its first line, as line 477
\* counts it.
BlockFits(op) ==
    IF op.kind = "image" THEN op.y + op.h <= PageHeight - Margin
    ELSE IF op.kind = "text" THEN op.y + (op.lines * 5) <= PageHeight - Margin
    ELSE op.y <= PageHeight - Margin

\* C13: no heading, image or wrapped description is drawn so that it passes
\* the usable height of its page (page height minus margin), however many
\* lines the description wraps to.
C13_NoBlockPastUsableHeight ==
    \A doc \in {exp.pdf, download} :
        \A j \in 1..Len(doc.ops) : BlockFits(doc.ops[j])

\* The latest run ended clean, and a clear during it left fewer cards in
\* the container than the run created.
CleanRunEndedAfterClear ==
    /\ hist.exit = "loopEnd"
    /\ hist.stopPc = "none"
    /\ hist.n = 3
    /\ hist.cleared
    /\ Len(resultsContainer) \in 1..2

\* The step ends a run.
RunEndingStep == isGenerating /\ ~isGenerating'

\* The run that the step ends went through all its iterations, no request
\* failed and stop was not clicked during it.
EndsClean == hist'.exit = "loopEnd" /\ hist.stopPc = "none"

\* The step leaves the completion message in the progress text.
SignalsComplete == progress'.msg = "All iterations complete!"

\* C14 as stated: a run signals 'All iterations complete!' and makes the
\* export button available exactly when it ends clean; a run with a stop
\* request or a failed request never signals completion.
C14_CompleteExactlyWhenClean ==
    [][RunEndingStep
          => /\ SignalsComplete <=> EndsClean
             /\ EndsClean => ui'.exportDisplayed
             /\ ~EndsClean => ui'.exportDisplayed = ui.exportDisplayed]_vars

\* C14 amended: a run signals 'All iterations complete!' exactly when it
\* ends clean, and a clean end makes the export button available when the
\* results container holds a card; with an empty container (cleared while
\* the last request was in flight) the button is left as it was.
C14_CompleteExactlyWhenCleanNonEmpty ==
    [][RunEndingStep
          => /\ SignalsComplete <=> EndsClean
             /\ (EndsClean /\ Len(resultsContainer') > 0) => ui'.exportDisplayed
             /\ (EndsClean /\ Len(resultsContainer') = 0)
                   => ui'.exportDisplayed = ui.exportDisplayed
             /\ ~EndsClean => ui'.exportDisplayed = ui.exportDisplayed]_vars

\* A clean run of three ended with the export button shown although the
\* container had been cleared while the run was under way.
C14_Witness ==
    /\ CleanRunEndedAfterClear
    /\ progress.msg = "All iterations complete!"
    /\ ui.exportDisplayed

\* What the step reports as the outcome of the run it ends.
ReportsCancelled == errorDisplay'.shown /\ errorDisplay'.text = MsgStopped

ReportsFailed ==
    /\ errorDisplay'.shown
    /\ Len(errorDisplay'.text) = 2
    /\ errorDisplay'.text[1] = "Error: "

OutcomesReported ==
    (IF SignalsComplete THEN 1 ELSE 0) + (IF ReportsCancelled THEN 1 ELSE 0)
        + (IF ReportsFailed THEN 1 ELSE 0)

\* C15: every run that ends reports exactly one outcome: complete (the
\* completion message), cancelled ('Generation stopped by user.', whenever
\* the loop was left because of the stop flag) or failed (the error of the
\* request); none ends with no report, none with two.
C15_ExactlyOneOutcome ==
    [][RunEndingStep
          => /\ OutcomesReported = 1
             /\ hist'.exit \in {"breakTop", "breakDescribe"} => ReportsCancelled
             /\ hist'.exit = "catch" => ReportsFailed]_vars

\* The message a failed request must carry for a response that is not ok.
PolicyMessage(body, generic) ==
    IF body.parses /\ body.message # Null /\ body.message # <<>>
    THEN body.message ELSE generic

\* C16: on a response that is not ok, generateImage fails with the message
\* of the error envelope, or with 'Failed to generate image' when the body
\* gives none (an envelope without message, a body that is not JSON);
\* describeImage does the same with 'Failed to describe image'.
C16_ErrorMessagePolicy ==
    [][\A b \in Bodies(FALSE, {}) :
          /\ (run.pc = "genJson" /\ ~run.ok /\ GenJsonResolve(b))
                => errorDisplay' =
                       [shown |-> TRUE,
                        text |-> <<"Error: ">> \o PolicyMessage(b, <<"Failed to generate image">>)]
          /\ (run.pc = "descJson" /\ ~run.ok /\ DescJsonResolve(b))
                => errorDisplay' =
                       [shown |-> TRUE,
                        text |-> <<"Error: ">> \o PolicyMessage(b, <<"Failed to describe image">>)]]_vars

\* C17: the stop flag is reset at the start of every run, whatever earlier
\* runs left behind.  While a run in which stop was not clicked is active
\* the flag is off; such a run never leaves the loop early, and when no
\* request fails it goes through all its N iterations.
C17_StopFlagResetPerRun ==
    /\ (isGenerating /\ hist.stopPc = "none") => ~shouldStop
    /\ (RunOver /\ hist.stopPc = "none") => hist.exit \in {"loopEnd", "catch"}
    /\ (hist.exit = "loopEnd" /\ hist.stopPc = "none" /\ hist.n >= 1)
          => /\ Len(cards) = hist.firstCard + hist.n - 1
             /\ Len(RunLog) = (2 * hist.n) - 1
             /\ RunLog[Len(RunLog)].i = hist.n
             /\ \A k \in 1..hist.n : RunCard(k).image.kind = "img"

\* A run of two went through both iterations after an earlier run of the
\* page had been stopped (the stop button is still disabled from it).
C17_Witness ==
    /\ ui.stopDisabled
    /\ hist.exit = "loopEnd"
    /\ hist.stopPc = "none"
    /\ hist.n = 2
    /\ hist.firstCard > 1
    /\ RunCard(2).desc.kind = "final"

\* C18: while a run is active and stop was not yet clicked in it, the stop
\* button is shown and enabled, in every run of the page.
C18_StopEnabledInEveryRun ==
    (isGenerating /\ hist.stopPc = "none") => (ui.stopDisplayed /\ ~ui.stopDisabled)

\* C19: the i-th card of the results container carries the number i, so
\* that the heading 'Iteration i' of the exporter is the card's own number
\* and no two cards of the container share an id.
C19_CardNumberIsPosition ==
    /\ \A i \in 1..Len(resultsContainer) : cards[resultsContainer[i]].id = i
    /\ \A i, j \in 1..Len(resultsContainer) :
          i # j => cards[resultsContainer[i]].id # cards[resultsContainer[j]].id

\* C20: while no run is active no card of the results container is pending:
\* its image is shown or marked failed, and its description is shown,
\* marked failed or replaced by the final marker.
C20_NoPendingCardWhenIdle ==
    ~isGenerating
        => \A i \in 1..Len(resultsContainer) :
              /\ cards[resultsContainer[i]].image.kind \in {"img", "error"}
              /\ cards[resultsContainer[i]].desc.kind \in {"text", "error", "final"}

====
